---------------------------- MODULE Spec2Model ----------------------------
(***************************************************************************)
(* promfreq: a cumulative-bucket histogram of a stream of numbers.         *)
(* The module models main (src/main.go): the choice of the bucket          *)
(* boundaries, the accumulation loop of parseValues, and the two printing  *)
(* steps.  Numbers are integers (exact arithmetic); text is a sequence of  *)
(* one-character strings, so that splitting, trimming and parsing are      *)
(* computed and not assumed.                                               *)
(***************************************************************************)
EXTENDS Integers, Sequences, FiniteSets, TLC

VARIABLES
    pc,         \* position of main
    cfg,        \* the parsed command-line flags
    bounds,     \* main's `bounds`: the finite bucket boundaries
    err,        \* main's `err`
    result,     \* parseValues' `result`: the buckets
    sum,        \* parseValues' `sum`
    count,      \* parseValues' `count`
    min,        \* parseValues' `min`
    max,        \* parseValues' `max`
    first,      \* parseValues' `first`
    read,       \* the lines the scanner has delivered so far
    stdout,     \* what has been written to os.Stdout
    stderr      \* what has been written to os.Stderr

vars == <<pc, cfg, bounds, err, result, sum, count, min, max, first,
          read, stdout, stderr>>

-----------------------------------------------------------------------------
(* Bounds of the model *)

MaxVal == 2         \* start, width in -1..MaxVal, factor in 0..MaxVal
MaxCount == 3       \* the count flag ranges over 0..MaxCount
MaxSamples == 3     \* lines read from the input before it ends

(* Defaults of the flags *)

DefaultStart == 1
DefaultFactor == 5
DefaultWidth == 1
DefaultCount == 10

-----------------------------------------------------------------------------
(* Text *)

Digits == {"0", "1", "2", "3", "4", "5", "6", "7", "8", "9"}

DigitVal(c) ==
    CASE c = "0" -> 0 [] c = "1" -> 1 [] c = "2" -> 2 [] c = "3" -> 3
      [] c = "4" -> 4 [] c = "5" -> 5 [] c = "6" -> 6 [] c = "7" -> 7
      [] c = "8" -> 8 [] c = "9" -> 9

RECURSIVE DecimalVal(_)
DecimalVal(s) ==
    IF s = <<>> THEN 0
    ELSE 10 * DecimalVal(SubSeq(s, 1, Len(s) - 1)) + DigitVal(s[Len(s)])

AllDigits(s) == Len(s) >= 1 /\ \A i \in 1..Len(s) : s[i] \in Digits

\* strconv.ParseFloat on the decimal integers: an optional sign and digits.
ParseFloat(s) ==
    IF AllDigits(s) THEN [ok |-> TRUE, val |-> DecimalVal(s)]
    ELSE IF Len(s) >= 2 /\ s[1] = "-" /\ AllDigits(Tail(s))
         THEN [ok |-> TRUE, val |-> 0 - DecimalVal(Tail(s))]
    ELSE IF Len(s) >= 2 /\ s[1] = "+" /\ AllDigits(Tail(s))
         THEN [ok |-> TRUE, val |-> DecimalVal(Tail(s))]
    ELSE [ok |-> FALSE, val |-> 0]

RECURSIVE TrimLeft(_)
TrimLeft(s) ==
    IF s # <<>> /\ s[1] = " " THEN TrimLeft(Tail(s)) ELSE s

RECURSIVE TrimRight(_)
TrimRight(s) ==
    IF s # <<>> /\ s[Len(s)] = " " THEN TrimRight(SubSeq(s, 1, Len(s) - 1))
    ELSE s

\* strings.TrimSpace
TrimSpace(s) == TrimRight(TrimLeft(s))

\* strings.Split(inp, ","): the fields between the commas, at least one.
RECURSIVE Split(_)
Split(s) ==
    IF \E i \in 1..Len(s) : s[i] = ","
    THEN LET i == CHOOSE k \in 1..Len(s) :
                      s[k] = "," /\ \A m \in 1..(k - 1) : s[m] # ","
         IN  <<SubSeq(s, 1, i - 1)>> \o Split(SubSeq(s, i + 1, Len(s)))
    ELSE <<s>>

-----------------------------------------------------------------------------
(* Sorting and searching *)

RECURSIVE Insert(_, _)
Insert(sorted, v) ==
    IF sorted = <<>> THEN <<v>>
    ELSE IF v <= sorted[1] THEN <<v>> \o sorted
    ELSE <<sorted[1]>> \o Insert(Tail(sorted), v)

\* sort.Float64s
RECURSIVE SortFloat64s(_)
SortFloat64s(s) ==
    IF s = <<>> THEN <<>>
    ELSE Insert(SortFloat64s(SubSeq(s, 1, Len(s) - 1)), s[Len(s)])

\* sort.Search over a[i..j) with the predicate a[h] >= x (indices from 0)
RECURSIVE BinarySearch(_, _, _, _)
BinarySearch(a, x, i, j) ==
    IF i < j
    THEN LET h == (i + j) \div 2
         IN  IF ~(a[h + 1] >= x) THEN BinarySearch(a, x, h + 1, j)
             ELSE BinarySearch(a, x, i, h)
    ELSE i

RECURSIVE BinarySearchAbove(_, _, _, _)
BinarySearchAbove(a, x, i, j) ==
    IF i < j
    THEN LET h == (i + j) \div 2
         IN  IF ~(a[h + 1] > x) THEN BinarySearchAbove(a, x, h + 1, j)
             ELSE BinarySearchAbove(a, x, i, h)
    ELSE i

\* a search that treats the upper bound as exclusive
SearchFloat64sExclusive(a, x) == BinarySearchAbove(a, x, 0, Len(a))

\* sort.SearchFloat64s(a, x): the index (from 0) the binary search returns
SearchFloat64s(a, x) == BinarySearch(a, x, 0, Len(a))

-----------------------------------------------------------------------------
(* Bucket boundaries *)

ErrNil == "nil"
ErrNonNumeric == "non-numeric input"
ErrLinearCount == "--linear-buckets needs a positive count"
ErrExpCount == "exponential buckets need a positive count"
ErrExpStart == "exponential buckets need a positive start value"
ErrExpFactor == "exponential buckets need a factor greater than 1"

parseBucketBoundaries(inp) ==
    LET s == Split(inp)
        parsed == [i \in 1..Len(s) |-> ParseFloat(s[i])]
    IN  IF \E i \in 1..Len(s) : ~parsed[i].ok
        THEN [buckets |-> <<>>, err |-> ErrNonNumeric]
        ELSE [buckets |-> SortFloat64s([i \in 1..Len(s) |-> parsed[i].val]),
              err |-> ErrNil]

RECURSIVE LinearFill(_, _, _)
LinearFill(start, width, n) ==
    IF n = 0 THEN <<>> ELSE <<start>> \o LinearFill(start + width, width, n - 1)

\* a linearBuckets that lets a count of 0 through
linearBucketsNoCheck(start, width, cnt) ==
    IF cnt < 0 THEN [buckets |-> <<>>, err |-> ErrLinearCount]
    ELSE [buckets |-> LinearFill(start, width, cnt), err |-> ErrNil]

linearBuckets(start, width, cnt) ==
    IF cnt < 1 THEN [buckets |-> <<>>, err |-> ErrLinearCount]
    ELSE [buckets |-> LinearFill(start, width, cnt), err |-> ErrNil]

RECURSIVE ExponentialFill(_, _, _)
ExponentialFill(start, factor, n) ==
    IF n = 0 THEN <<>>
    ELSE <<start>> \o ExponentialFill(start * factor, factor, n - 1)

\* an exponentialBuckets that accepts a factor of 1
exponentialBucketsFactorOne(start, factor, cnt) ==
    IF cnt < 1 THEN [buckets |-> <<>>, err |-> ErrExpCount]
    ELSE IF start <= 0 THEN [buckets |-> <<>>, err |-> ErrExpStart]
    ELSE IF factor < 1 THEN [buckets |-> <<>>, err |-> ErrExpFactor]
    ELSE [buckets |-> ExponentialFill(start, factor, cnt), err |-> ErrNil]

exponentialBuckets(start, factor, cnt) ==
    IF cnt < 1 THEN [buckets |-> <<>>, err |-> ErrExpCount]
    ELSE IF start <= 0 THEN [buckets |-> <<>>, err |-> ErrExpStart]
    ELSE IF factor <= 1 THEN [buckets |-> <<>>, err |-> ErrExpFactor]
    ELSE [buckets |-> ExponentialFill(start, factor, cnt), err |-> ErrNil]

\* main's choice among the three schemes
CreateBounds(c) ==
    IF c.explicit # <<>> THEN parseBucketBoundaries(c.explicit)
    ELSE IF c.mode = "linear" \/ c.mode = "lin"
         THEN linearBuckets(c.start, c.width, c.count)
    ELSE IF c.mode = "exponential" \/ c.mode = "exp"
         THEN exponentialBuckets(c.start, c.factor, c.count)
    ELSE [buckets |-> <<>>, err |-> ErrNil]

-----------------------------------------------------------------------------
(* The accumulator: parseValues *)

\* an upper bound is a finite number or +Inf
Finite(v) == [inf |-> FALSE, val |-> v]
PosInf == [inf |-> TRUE, val |-> 0]

\* v <= ub
AtMost(v, ub) == ub.inf \/ v <= ub.val

\* the buckets parseValues creates before reading
NewResult(buckets) ==
    [ix \in 1..(Len(buckets) + 1) |->
        IF ix <= Len(buckets)
        THEN [upperBound |-> Finite(buckets[ix]), count |-> 0]
        ELSE [upperBound |-> PosInf, count |-> 0]]

\* a loop that stops before the last bucket
IncrementBucketsFinite(res, ix0) ==
    [k \in 1..Len(res) |->
        IF k - 1 >= ix0 /\ k - 1 < Len(res) - 1
        THEN [res[k] EXCEPT !.count = @ + 1]
        ELSE res[k]]

\* a loop that counts the sample in its own bucket only
IncrementBucketsOnlyOne(res, ix0) ==
    [k \in 1..Len(res) |->
        IF k - 1 = ix0 \/ k = Len(res)
        THEN [res[k] EXCEPT !.count = @ + 1]
        ELSE res[k]]

\* for ix := ix0; ix < len(result); ix++ { result[ix].count++ }
IncrementBuckets(res, ix0) ==
    [k \in 1..Len(res) |->
        IF k - 1 >= ix0 THEN [res[k] EXCEPT !.count = @ + 1] ELSE res[k]]

\* a body that takes max from a smaller sample
LoopBodyMaxSwapped(st, buckets, sample) ==
    LET min1 == IF st.first THEN sample ELSE st.min
        max1 == IF st.first THEN sample ELSE st.max
    IN  [result |-> IncrementBuckets(st.result, SearchFloat64s(buckets, sample)),
         sum    |-> st.sum + sample,
         count  |-> st.count + 1,
         min    |-> IF sample < min1 THEN sample ELSE min1,
         max    |-> IF sample < max1 THEN sample ELSE max1,
         first  |-> FALSE]

\* a body that never clears `first`
LoopBodyFirstKept(st, buckets, sample) ==
    LET min1 == IF st.first THEN sample ELSE st.min
        max1 == IF st.first THEN sample ELSE st.max
    IN  [result |-> IncrementBuckets(st.result, SearchFloat64s(buckets, sample)),
         sum    |-> st.sum + sample,
         count  |-> st.count + 1,
         min    |-> IF sample < min1 THEN sample ELSE min1,
         max    |-> IF sample > max1 THEN sample ELSE max1,
         first  |-> st.first]

\* one iteration of the scanner loop for a line that parsed as `sample`
LoopBody(st, buckets, sample) ==
    LET min1 == IF st.first THEN sample ELSE st.min
        max1 == IF st.first THEN sample ELSE st.max
    IN  [result |-> IncrementBuckets(st.result, SearchFloat64s(buckets, sample)),
         sum    |-> st.sum + sample,
         count  |-> st.count + 1,
         min    |-> IF sample < min1 THEN sample ELSE min1,
         max    |-> IF sample > max1 THEN sample ELSE max1,
         first  |-> FALSE]

\* the state of parseValues before the first line
InitialState(buckets) ==
    [result |-> NewResult(buckets), sum |-> 0, count |-> 0,
     min |-> 0, max |-> 0, first |-> TRUE]

\* the state of parseValues as one value
State ==
    [result |-> result, sum |-> sum, count |-> count,
     min |-> min, max |-> max, first |-> first]

\* parseValues over a whole stream of numeric samples
RECURSIVE parseValues(_, _)
parseValues(samples, buckets) ==
    IF samples = <<>> THEN InitialState(buckets)
    ELSE LET st == parseValues(SubSeq(samples, 1, Len(samples) - 1), buckets)
         IN  LoopBody(st, buckets, samples[Len(samples)])

-----------------------------------------------------------------------------
(* Printing: the histogram rows and the summary *)

\* a fraction num/den with den > 0; NaN is the result of 0/0
Frac(num, den) == [num |-> num, den |-> den]
NaN == [num |-> 0, den |-> 0]
IsNaN(x) == x.den = 0
Div(num, den) ==
    IF den = 0 THEN NaN
    ELSE IF den < 0 THEN Frac(0 - num, 0 - den) ELSE Frac(num, den)

\* x <= y; false when either is NaN
FracLeq(x, y) == ~IsNaN(x) /\ ~IsNaN(y) /\ x.num * y.den <= y.num * x.den

\* the estimate of the q-quantile, q = pct/100, from the cumulative buckets:
\* the first bucket whose count reaches q * sampleCount, interpolated between
\* its lower edge (0 for the first bucket) and its upper bound; the lower
\* edge itself for the +Inf bucket.
bucketQuantile(pct, buckets) ==
    LET n == Len(buckets)
        samples == buckets[n].count
        reached == {i \in 1..n : 100 * buckets[i].count >= pct * samples}
        lowerEdge(i) == IF i = 1 THEN 0 ELSE buckets[i - 1].upperBound.val
    IN  IF reached = {} THEN Frac(lowerEdge(n), 1)
        ELSE LET i == CHOOSE k \in reached : \A m \in reached : k <= m
                 before == IF i = 1 THEN 0 ELSE buckets[i - 1].count
                 lo == lowerEdge(i)
                 hi == buckets[i].upperBound.val
                 width == 100 * (buckets[i].count - before)
             IN  IF buckets[i].upperBound.inf THEN Frac(lo, 1)
                 ELSE IF width = 0 THEN NaN
                 ELSE Div(lo * width + (hi - lo) * (pct * samples - 100 * before),
                          width)

\* maxFrequency: the largest number of samples in one bucket
maxFrequency(buckets) ==
    LET d(ix) == IF ix = 1 THEN buckets[1].count
                 ELSE buckets[ix].count - buckets[ix - 1].count
    IN  CHOOSE m \in {d(ix) : ix \in 1..Len(buckets)} :
            \A ix \in 1..Len(buckets) : d(ix) <= m

\* the rows printHistogram writes: each bucket's edges and its own samples
HistogramRows(buckets) ==
    [ix \in 1..Len(buckets) |->
        [upperBound |-> buckets[ix].upperBound,
         bucketSamples |-> IF ix = 1 THEN buckets[1].count
                           ELSE buckets[ix].count - buckets[ix - 1].count]]

\* the statistics printSummary writes
SummaryStats(buckets, s, samples, mn, mx) ==
    [count |-> samples,
     p50 |-> bucketQuantile(50, buckets),
     p90 |-> bucketQuantile(90, buckets),
     p95 |-> bucketQuantile(95, buckets),
     p99 |-> bucketQuantile(99, buckets),
     avg |-> Div(s, samples),
     min |-> mn,
     max |-> mx]

-----------------------------------------------------------------------------
(* The inputs *)

\* values of the -buckets flag; <<>> is the empty string (flag not given)
ExplicitInputs ==
    { <<"2", ",", "0">>,
      <<"1", ",", "1">>,
      <<"-", "1", ",", "2", ",", "1">>,
      <<"3">>,
      <<"0", ",", "x">>,
      <<"1", ",">>,
      <<"1", ",", " ", "2">> }

\* the lines of the input
Lines ==
    { <<"0">>, <<"1">>, <<" ", "2">>, <<"3", " ">>, <<"-", "1">>,
      <<"x">>, <<>> }

Defaults ==
    [explicit |-> <<>>, mode |-> "linear", start |-> DefaultStart,
     width |-> DefaultWidth, factor |-> DefaultFactor, count |-> DefaultCount]

Configs ==
    { [Defaults EXCEPT !.start = s, !.width = w, !.count = c] :
          s \in -1..MaxVal, w \in -1..MaxVal, c \in 0..MaxCount }
    \cup
    { [Defaults EXCEPT !.mode = "exponential", !.start = s, !.factor = f,
                       !.count = c] :
          s \in -1..MaxVal, f \in 0..MaxVal, c \in 0..MaxCount }
    \cup
    { [Defaults EXCEPT !.mode = m] : m \in {"lin", "exp", "hist"} }
    \cup
    { [Defaults EXCEPT !.explicit = e, !.mode = m] :
          e \in ExplicitInputs, m \in {"linear", "exponential"} }

-----------------------------------------------------------------------------
(* main *)

Init ==
    /\ pc = "start"
    /\ cfg \in Configs
    /\ bounds = <<>>
    /\ err = ErrNil
    /\ result = <<>>
    /\ sum = 0
    /\ count = 0
    /\ min = 0
    /\ max = 0
    /\ first = TRUE
    /\ read = <<>>
    /\ stdout = <<>>
    /\ stderr = <<>>

\* main up to the call of parseValues, and parseValues up to its loop
CreateBuckets ==
    /\ pc = "start"
    /\ LET r == CreateBounds(cfg)
       IN  /\ bounds' = r.buckets
           /\ err' = r.err
           /\ IF r.err # ErrNil
              THEN /\ stderr' = Append(stderr, <<"Failed to create buckets:", r.err>>)
                   /\ pc' = "exit1"
                   /\ UNCHANGED result
              ELSE /\ result' = NewResult(r.buckets)
                   /\ pc' = "scan"
                   /\ UNCHANGED stderr
    /\ UNCHANGED <<cfg, sum, count, min, max, first, read, stdout>>

\* a scan that skips a line it cannot parse
ScanLineSkipping ==
    /\ pc = "scan"
    /\ Len(read) < MaxSamples
    /\ \E line \in Lines :
          LET v == TrimSpace(line)
              p == ParseFloat(v)
              st == IF p.ok THEN LoopBody(State, bounds, p.val) ELSE State
          IN  /\ read' = Append(read, line)
              /\ result' = st.result
              /\ sum' = st.sum
              /\ count' = st.count
              /\ min' = st.min
              /\ max' = st.max
              /\ first' = st.first
              /\ UNCHANGED <<pc, stderr>>
    /\ UNCHANGED <<cfg, bounds, err, stdout>>

\* one iteration of parseValues' loop: scanner.Scan() delivered a line
ScanLine ==
    /\ pc = "scan"
    /\ Len(read) < MaxSamples
    /\ \E line \in Lines :
          LET v == TrimSpace(line)
              p == ParseFloat(v)
          IN  /\ read' = Append(read, line)
              /\ IF ~p.ok
                 THEN /\ stderr' = Append(stderr, <<"found non-numerical input:", v>>)
                      /\ pc' = "exit1"
                      /\ UNCHANGED <<result, sum, count, min, max, first>>
                 ELSE LET st == LoopBody(State, bounds, p.val)
                      IN  /\ result' = st.result
                          /\ sum' = st.sum
                          /\ count' = st.count
                          /\ min' = st.min
                          /\ max' = st.max
                          /\ first' = st.first
                          /\ UNCHANGED <<pc, stderr>>
    /\ UNCHANGED <<cfg, bounds, err, stdout>>

\* scanner.Scan() returned false: parseValues returns
ScanEnd ==
    /\ pc = "scan"
    /\ pc' = "printHistogram"
    /\ UNCHANGED <<cfg, bounds, err, result, sum, count, min, max, first,
                   read, stdout, stderr>>

\* printHistogram
PrintHistogram ==
    /\ pc = "printHistogram"
    /\ stdout' = Append(stdout, [kind |-> "histogram", rows |-> HistogramRows(result)])
    /\ pc' = "printSummary"
    /\ UNCHANGED <<cfg, bounds, err, result, sum, count, min, max, first,
                   read, stderr>>

\* printHistogram with no samples: the bar width is 0/0, and its conversion
\* to int is implementation-dependent; where it is negative, column panics
\* before the first row is written
PrintHistogramPanic ==
    /\ pc = "printHistogram"
    /\ maxFrequency(result) = 0
    /\ stderr' = Append(stderr, <<"panic:", "strings: negative Repeat count">>)
    /\ pc' = "exit2"
    /\ UNCHANGED <<cfg, bounds, err, result, sum, count, min, max, first,
                   read, stdout>>

\* printSummary
PrintSummary ==
    /\ pc = "printSummary"
    /\ stdout' = Append(stdout, [kind |-> "summary",
                                 stats |-> SummaryStats(result, sum, count, min, max)])
    /\ pc' = "exit0"
    /\ UNCHANGED <<cfg, bounds, err, result, sum, count, min, max, first,
                   read, stderr>>

Next ==
    \/ CreateBuckets
    \/ ScanLine
    \/ ScanEnd
    \/ PrintHistogram
    \/ PrintHistogramPanic
    \/ PrintSummary

Spec == Init /\ [][Next]_vars

-----------------------------------------------------------------------------
(* What the properties speak of *)

\* the values of the lines read so far that parsed as numbers
RECURSIVE NumericValues(_)
NumericValues(lines) ==
    IF lines = <<>> THEN <<>>
    ELSE LET p == ParseFloat(TrimSpace(lines[1]))
         IN  (IF p.ok THEN <<p.val>> ELSE <<>>) \o NumericValues(Tail(lines))

Samples == NumericValues(read)

\* some line read so far is not a number
MalformedLineRead ==
    \E i \in 1..Len(read) : ~ParseFloat(TrimSpace(read[i])).ok

IsSorted(s) == \A i \in 1..(Len(s) - 1) : s[i] <= s[i + 1]

Counts(res) == [i \in 1..Len(res) |-> res[i].count]

UpperBounds(res) == [i \in 1..Len(res) |-> res[i].upperBound]

RECURSIVE SumOf(_)
SumOf(s) == IF s = <<>> THEN 0 ELSE s[1] + SumOf(Tail(s))

\* parseValues has created its buckets
Created == result # <<>>

\* parseValues has returned
Returned == pc \in {"printHistogram", "printSummary", "exit0", "exit2"}

ExponentialRun ==
    pc # "start" /\ cfg.explicit = <<>> /\ cfg.mode \in {"exponential", "exp"}

LinearRun ==
    pc # "start" /\ cfg.explicit = <<>> /\ cfg.mode \in {"linear", "lin"}

\* boundaries 1,5,10 with the samples 0,3,7,12
ExplicitExample == parseValues(<<0, 3, 7, 12>>, <<1, 5, 10>>)

\* linear buckets start=1, width=1, count=5 with the samples 1..5
LinearExample == parseValues(<<1, 2, 3, 4, 5>>, linearBuckets(1, 1, 5).buckets)

\* the percentages the quantile estimates are compared at
Percents == {1, 10, 50, 90, 95, 99}

-----------------------------------------------------------------------------
(* Properties *)

\* C1: for any finite bounds (sorted or not, possibly none), after every
\* sample the count of the trailing +Inf bucket is the number of samples
\* processed so far.
InfBucketCountsEverySample ==
    Created =>
        /\ result[Len(result)].upperBound = PosInf
        /\ result[Len(result)].count = count
        /\ count = Len(Samples)

InfBucketWitness ==
    /\ Created
    /\ ~IsSorted(bounds)
    /\ count >= 2
    /\ \E i \in 1..Len(bounds) : \E k \in 1..Len(Samples) : Samples[k] > bounds[i]

\* C2: in every state of parseValues the counts are non-decreasing in the
\* bucket index, up to and including the +Inf bucket, whatever the bounds.
CountsNonDecreasing ==
    Created =>
        \A i \in 1..(Len(result) - 1) : result[i].count <= result[i + 1].count

CountsNonDecreasingWitness ==
    /\ Created
    /\ ~IsSorted(bounds)
    /\ count >= 2
    /\ \E i \in 1..(Len(result) - 1) : result[i].count < result[i + 1].count
    /\ result[1].count > 0

\* C3: with the finite bounds sorted ascending, every bucket's count is the
\* number of processed samples that are <= its upper bound (inclusive);
\* bounds 1,5,10 with samples 0,3,7,12 give 1,2,3,4 and bounds 1..5 with
\* samples 1..5 give 1,2,3,4,5,5.
CountIsSamplesAtMostBound ==
    /\ LET s == Samples
       IN  (Created /\ IsSorted(bounds)) =>
              \A i \in 1..Len(result) :
                  result[i].count =
                      Cardinality({k \in 1..Len(s) :
                                      AtMost(s[k], result[i].upperBound)})
    /\ Counts(ExplicitExample.result) = <<1, 2, 3, 4>>
    /\ Counts(LinearExample.result) = <<1, 2, 3, 4, 5, 5>>

CountIsSamplesAtMostBoundWitness ==
    /\ Created
    /\ IsSorted(bounds)
    /\ Len(bounds) >= 2
    /\ count >= 2
    /\ \E i \in 1..Len(bounds) : \E k \in 1..Len(Samples) :
           /\ Samples[k] = bounds[i]
           /\ result[i].count > 0
           /\ result[i].count < count

QuantileNonDecreasing ==
    (Returned /\ count > 0 /\ IsSorted(bounds)) =>
        \A q1 \in Percents : \A q2 \in Percents :
            q1 <= q2 => FracLeq(bucketQuantile(q1, result), bucketQuantile(q2, result))

\* C6: whenever the construction of the buckets reports no error, the finite
\* bounds handed to the accumulator are non-empty and sorted ascending.
BoundsNonEmptyAscending ==
    (pc # "start" /\ err = ErrNil) => bounds # <<>> /\ IsSorted(bounds)

\* C7: exponentialBuckets fails when start <= 0 (positive start value needed)
\* and when factor <= 1 (factor greater than 1 needed); otherwise it returns
\* count bounds, the first is start, each next one is the previous times
\* factor, and they increase strictly.
ExponentialBucketsContract ==
    /\ ExponentialRun =>
          /\ cfg.start <= 0 => err # ErrNil
          /\ cfg.factor <= 1 => err # ErrNil
          /\ (cfg.count >= 1 /\ cfg.start <= 0) => err = ErrExpStart
          /\ (cfg.count >= 1 /\ cfg.start > 0 /\ cfg.factor <= 1) => err = ErrExpFactor
          /\ (cfg.count >= 1 /\ cfg.start > 0 /\ cfg.factor > 1) =>
                /\ err = ErrNil
                /\ Len(bounds) = cfg.count
                /\ bounds[1] = cfg.start
                /\ \A k \in 1..(Len(bounds) - 1) :
                       /\ bounds[k + 1] = bounds[k] * cfg.factor
                       /\ bounds[k] < bounds[k + 1]
    /\ exponentialBuckets(0, 2, 3).err = ErrExpStart
    /\ exponentialBuckets(1, 1, 3).err = ErrExpFactor

ExponentialBucketsWitness ==
    /\ ExponentialRun
    /\ err = ErrNil
    /\ cfg.start >= 2
    /\ cfg.factor >= 2
    /\ Len(bounds) >= 3

\* C8: linearBuckets fails exactly when count < 1; for count >= 1 and any
\* start and width it returns count bounds, the k-th (from 0) being
\* start + k * width.
LinearBucketsContract ==
    LinearRun =>
        /\ (cfg.count < 1) <=> (err # ErrNil)
        /\ err # ErrNil => err = ErrLinearCount
        /\ cfg.count >= 1 =>
              /\ Len(bounds) = cfg.count
              /\ \A k \in 0..(cfg.count - 1) :
                     bounds[k + 1] = cfg.start + k * cfg.width

LinearBucketsWitness ==
    /\ LinearRun
    /\ err = ErrNil
    /\ cfg.width < 0
    /\ cfg.start # 0
    /\ Len(bounds) >= 3

\* C9: after a non-empty stream of valid samples, count is their number, sum
\* their sum, min the smallest and max the largest, so min <= max; samples
\* 1..5 give min 1, max 5 and average 3.
AggregatesOfSamples ==
    /\ LET s == Samples
       IN  (Created /\ s # <<>>) =>
              /\ count = Len(s)
              /\ sum = SumOf(s)
              /\ \E k \in 1..Len(s) : min = s[k]
              /\ \A k \in 1..Len(s) : min <= s[k]
              /\ \E k \in 1..Len(s) : max = s[k]
              /\ \A k \in 1..Len(s) : s[k] <= max
              /\ min <= max
    /\ LinearExample.min = 1
    /\ LinearExample.max = 5
    /\ FracLeq(Div(LinearExample.sum, LinearExample.count), Frac(3, 1))
    /\ FracLeq(Frac(3, 1), Div(LinearExample.sum, LinearExample.count))

AggregatesOfSamplesWitness ==
    /\ Returned
    /\ Len(Samples) >= 3
    /\ Samples[1] # min
    /\ Samples[1] # max
    /\ Samples[Len(Samples)] # max
    /\ min < 0

\* C10: the state of the accumulator does not depend on the order of the
\* samples: whatever the order they were read in, parseValues is left with
\* the buckets, count, sum, min and max it has after the same samples in
\* ascending order (two streams are permutations of one another exactly when
\* they sort to the same stream); and processing a sample never changes the
\* number of buckets or their upper bounds.
OrderIndependent ==
    /\ [](Created => parseValues(SortFloat64s(Samples), bounds) = State)
    /\ [][Created => UpperBounds(result') = UpperBounds(result)]_vars

OrderIndependentWitness ==
    /\ Created
    /\ Len(Samples) >= 3
    /\ Samples[1] > Samples[2]
    /\ Samples[3] > Samples[1]
    /\ Len(bounds) >= 2
    /\ result[1].count > 0
    /\ result[1].count < count

=============================================================================
